---- MODULE Spec2Model ----
(***************************************************************************)
(* Client-side authentication session lifecycle of PretiumInvestment2:     *)
(* the axios gateway (Services/api.js), the sign-in form (LoginPage), the   *)
(* two-phase password reset view (ForgotPassword) and the route table.      *)
(* One document of the single-page app is modelled: localStorage, the       *)
(* mounted components' React state, the requests in flight, the pending     *)
(* redirect timers and the current location.                                *)
(***************************************************************************)
EXTENDS Naturals, FiniteSets, Sequences, TLC

\* ---------------------------------------------------------------- bounds
MaxReq == 2        \* requests dispatched per behaviour

\* ---------------------------------------------------------------- values
Null      == "<null>"        \* localStorage.getItem / URLSearchParams.get miss
Undefined == "<undefined>"   \* a field the payload does not have

AccessTokens  == {"A1", "A2"}
RefreshTokens == {"R1"}

StatusOk           == 200
StatusBadRequest   == 400
StatusUnauthorized == 401
NoResponse         == 0      \* err.response is undefined (network fault)

LoginFallback   == "Login failed. Check your credentials and 2FA token."
RequestFallback == "Unable to submit request."
ConfirmFallback == "Unable to reset password."
MismatchMessage == "Passwords do not match."
RequestDefaultStatus == "If an account exists for that email, a reset link will be sent."
ConfirmSuccessStatus == "Password updated. You can now sign in."

BackendErrors   == {Undefined, "", "Invalid credentials"}
BackendMessages == {Undefined, "Reset link sent."}
BackendUids     == {Undefined, "ub"}
BackendTokens   == {Undefined, "tb"}
TypedUids       == {" u2 "}
TypedTokens     == {" t2 "}
Passwords       == {"p1", "p2"}

\* ---------------------------------------------------------------- routes
SignInPath    == "/"
RegisterPath  == "/register"
ForgotPath    == "/forgot-password"
ResetPath     == "/reset-password"
DashboardPath == "/dashboard"
TwoFaPath     == "/settings/2fa"
UnknownPath   == "/nope"

ProtectedPaths == {DashboardPath, TwoFaPath}
ResetPaths     == {ForgotPath, ResetPath}
KnownPaths     == {SignInPath, RegisterPath} \cup ResetPaths \cup ProtectedPaths
InAppPaths     == {SignInPath, RegisterPath, ForgotPath, DashboardPath}

NoQuery == [uid |-> Null, token |-> Null]
Queries == {NoQuery,
            [uid |-> "u1", token |-> "t1"],
            [uid |-> "u1", token |-> Null],
            [uid |-> "",   token |-> "t1"]}

VARIABLES
  localStorage,    \* [access_token, refresh_token], Null when the key is absent
  path,            \* location.pathname after route resolution
  search,          \* location.search as parsed by URLSearchParams
  LoginPage,       \* React state of the mounted LoginPage
  ForgotPassword,  \* React state of the mounted ForgotPassword
  net,             \* requests dispatched and not yet answered
  timers,          \* pending setTimeout(() => navigate("/"), 1200) callbacks
  sent,            \* number of requests dispatched so far
  session,         \* history: a login succeeded and no 401 was handled since
  lastLogin,       \* history: outcome of the most recently completed login
  last,            \* history: the step that produced this state
  before           \* history: localStorage before that step

vars == <<localStorage, path, search, LoginPage, ForgotPassword, net, timers,
          sent, session, lastLogin, last, before>>

\* ---------------------------------------------------------------- helpers
\* JavaScript truthiness of a string-or-missing value.
Truthy(v) == v \notin {Null, Undefined, ""}

\* a || b
Or(a, b) == IF Truthy(a) THEN a ELSE b

\* String.prototype.trim on the values the model uses.
Trim(s) ==
  CASE s = " u2 " -> "u2"
    [] s = " t2 " -> "t2"
    [] OTHER -> s

getItem(store, key) == store[key]
\* Variant: the write is lost.
setItem_Dropped(store, key, value) == store

setItem(store, key, value) == [store EXCEPT ![key] = value]


\* Variant: the key removed is not the key stored.
removeItem_WrongKey(store, key) == store

removeItem(store, key) == [store EXCEPT ![key] = Null]

EmptyStore == [access_token |-> Null, refresh_token |-> Null]


\* ---------------------------------------------------------------- gateway
\* Variant: the interceptor attaches no credential.
requestInterceptor_NoHeader(config, store) == config

\* api.js request interceptor: attach the stored access token, if any.
requestInterceptor(config, store) ==
  LET token == getItem(store, "access_token")
  IN  IF Truthy(token)
        THEN [config EXCEPT !.Authorization = "Bearer " \o token]
        ELSE config

\* Variant: on a 401 only the access token is removed.
responseInterceptor_KeepsRefresh(resp, store) ==
  IF resp.status = StatusOk
    THEN [store |-> store, rejected |-> FALSE]
    ELSE [store |-> IF resp.status = StatusUnauthorized
                      THEN removeItem(store, "access_token")
                      ELSE store,
          rejected |-> TRUE]

\* Variant: a 401 is rejected without evicting the session.
responseInterceptor_NoEviction(resp, store) ==
  [store |-> store, rejected |-> resp.status # StatusOk]

\* Variant: every error response evicts the session, not only a 401.
responseInterceptor_AnyError(resp, store) ==
  IF resp.status = StatusOk
    THEN [store |-> store, rejected |-> FALSE]
    ELSE [store |-> IF resp.status # NoResponse
                      THEN removeItem(removeItem(store, "access_token"),
                                      "refresh_token")
                      ELSE store,
          rejected |-> TRUE]

\* api.js response interceptor: pass a response through; on an error, evict
\* the session when the status is 401, and reject again in every case.
responseInterceptor(resp, store) ==
  IF resp.status = StatusOk
    THEN [store |-> store, rejected |-> FALSE]
    ELSE [store |-> IF resp.status = StatusUnauthorized
                      THEN removeItem(removeItem(store, "access_token"),
                                      "refresh_token")
                      ELSE store,
          rejected |-> TRUE]

NoData == [access |-> Undefined, refresh |-> Undefined, message |-> Undefined,
           uid |-> Undefined, token |-> Undefined, error |-> Undefined]

Failures ==
  {[status |-> NoResponse, data |-> NoData]} \cup
  {[status |-> s, data |-> [NoData EXCEPT !.error = e]] :
     s \in {StatusBadRequest, StatusUnauthorized}, e \in BackendErrors}

LoginResponses ==
  {[status |-> StatusOk, data |-> [NoData EXCEPT !.access = a, !.refresh = f]] :
     a \in AccessTokens, f \in RefreshTokens \cup {Undefined}} \cup Failures

RequestResponses ==
  {[status |-> StatusOk,
    data |-> [NoData EXCEPT !.message = m, !.uid = u, !.token = t]] :
     m \in BackendMessages, u \in BackendUids, t \in BackendTokens} \cup Failures

ConfirmResponses == {[status |-> StatusOk, data |-> NoData]} \cup Failures

\* Variant: the backend's message is ignored.
ErrorMessage_FallbackOnly(err, fallback) == fallback

\* err.response?.data?.error || fallback
ErrorMessage(err, fallback) ==
  Or(IF err.status = NoResponse THEN Undefined ELSE err.data.error, fallback)

\* ---------------------------------------------------------------- components
InitLoginPage == [error |-> "", isSubmitting |-> FALSE]

initUid(q)   == Or(q.uid, "")
initToken(q) == Or(q.token, "")

InitForgotPassword(q) ==
  [requestStatus |-> "", requestError |-> "", isRequesting |-> FALSE,
   uid |-> initUid(q), token |-> initToken(q),
   confirmStatus |-> "", confirmError |-> "", isConfirming |-> FALSE]

\* Variant: one of the two parameters is enough.
showConfirm_Either(q) == Truthy(initUid(q)) \/ Truthy(initToken(q))

\* Variant: the form's current uid and token decide, not the URL's.
showConfirm_FromState(q) ==
  Truthy(ForgotPassword.uid) /\ Truthy(ForgotPassword.token)

\* Boolean(initUid && initToken)
showConfirm(q) == Truthy(initUid(q)) /\ Truthy(initToken(q))

\* useEffect(..., [showConfirm])
useEffect(fp, q) ==
  IF showConfirm(q)
    THEN [fp EXCEPT !.requestStatus = "", !.requestError = ""]
    ELSE fp

\* The forms the reset view renders for a location.
render(q) == (IF ~showConfirm(q) THEN {"request"} ELSE {}) \cup {"confirm"}

\* ---------------------------------------------------------------- routing
\* Components/ProtectedRoute: render the child when an access token is stored,
\* redirect to the sign-in entry point otherwise.
ProtectedRoute(store, child) ==
  IF Truthy(getItem(store, "access_token")) THEN child ELSE SignInPath

\* <Routes> of App: the path the router settles on.
Routes(p, store) ==
  IF p \in ProtectedPaths THEN ProtectedRoute(store, p)
  ELSE IF p \in KnownPaths THEN p
  ELSE SignInPath

Component(p) ==
  IF p = SignInPath THEN "LoginPage"
  ELSE IF p \in ResetPaths THEN "ForgotPassword"
  ELSE "none"

Owner(op) == IF op = "login/" THEN "LoginPage" ELSE "ForgotPassword"

\* History of the last step, kept for the steps the properties speak about: a
\* dispatch, a settled request (with the response's status and error field,
\* whether the issuing instance was still mounted and whether its catch block
\* ran), a confirmation submitted with differing passwords, a document load,
\* a same-document navigation and a timer callback (with the path asked for).
Event(ev, op, status, error, live, caught) ==
  [ev |-> ev, op |-> op, status |-> status, error |-> error, live |-> live,
   caught |-> caught]
Other == Event("other", "", NoResponse, Undefined, FALSE, FALSE)
Dispatched(op) == Event("submit", op, NoResponse, Undefined, TRUE, FALSE)
Settled(r, resp, caught) ==
  Event("settled", r.op, resp.status, resp.data.error, r.live, caught)
Visit(ev, p) == Event(ev, p, NoResponse, Undefined, FALSE, FALSE)

\* A same-document navigation to p?q.  lp, fp and n are the component states
\* and the requests in flight after the calling handler's own updates.  A
\* component that stays on its route keeps its state; any other is unmounted,
\* and a state update of an unmounted component is a no-op.
navigate(p, q, store, lp, fp, n) ==
  LET to    == Routes(p, store)
      qq    == IF to = p /\ to \in ResetPaths THEN q ELSE NoQuery
      keepL == Component(path) = "LoginPage" /\ Component(to) = "LoginPage"
      keepF == Component(path) = "ForgotPassword" /\ Component(to) = "ForgotPassword"
  IN  /\ path' = to
      /\ search' = qq
      /\ LoginPage' = IF keepL THEN lp ELSE InitLoginPage
      /\ ForgotPassword' = useEffect(IF keepF THEN fp ELSE InitForgotPassword(qq), qq)
      /\ net' = {[r EXCEPT !.live = r.live /\
                     (IF Owner(r.op) = "LoginPage" THEN keepL ELSE keepF)] : r \in n}

Request(op, uid, token) ==
  [id |-> sent, op |-> op, Authorization |-> Undefined, uid |-> uid,
   token |-> token, live |-> TRUE]

\* ---------------------------------------------------------------- initial state
Init ==
  /\ localStorage = EmptyStore
  /\ path = SignInPath
  /\ search = NoQuery
  /\ LoginPage = InitLoginPage
  /\ ForgotPassword = InitForgotPassword(NoQuery)
  /\ net = {}
  /\ timers = 0
  /\ sent = 0
  /\ session = "never"
  /\ lastLogin = "none"
  /\ last = Other
  /\ before = EmptyStore

\* ---------------------------------------------------------------- navigation
\* The user opens p?q in the address bar: a new document.  Requests and timers
\* of the old document are gone; localStorage persists.
Load(p, q) ==
  /\ LET to == Routes(p, localStorage)
         qq == IF to = p /\ to \in ResetPaths THEN q ELSE NoQuery
     IN  /\ path' = to
         /\ search' = qq
         /\ ForgotPassword' = useEffect(InitForgotPassword(qq), qq)
  /\ LoginPage' = InitLoginPage
  /\ net' = {}
  /\ timers' = 0
  /\ last' = Visit("load", p)
  /\ before' = localStorage
  /\ UNCHANGED <<localStorage, sent, session, lastLogin>>

\* A link of LoginPage or a traversal of the document's history.
Navigate(p) ==
  /\ navigate(p, NoQuery, localStorage, LoginPage, ForgotPassword, net)
  /\ last' = Visit("navigate", p)
  /\ before' = localStorage
  /\ UNCHANGED <<localStorage, timers, sent, session, lastLogin>>

\* setTimeout(() => navigate("/"), 1200) fires.
TimerFire ==
  /\ timers > 0
  /\ timers' = timers - 1
  /\ navigate(SignInPath, NoQuery, localStorage, LoginPage, ForgotPassword, net)
  /\ last' = Visit("timer", SignInPath)
  /\ before' = localStorage
  /\ UNCHANGED <<localStorage, sent, session, lastLogin>>

\* ---------------------------------------------------------------- LoginPage
\* Variant: the submit button is never disabled.
disabled_Never(pending) == FALSE

\* <button type="submit" disabled={pending}>: a disabled submit button blocks
\* the form's submission, by click and by the Enter key alike.
disabled(pending) == pending

\* handleLogin up to the await: the submit button is disabled while pending.
handleLogin ==
  /\ path = SignInPath
  /\ ~disabled(LoginPage.isSubmitting)
  /\ sent < MaxReq
  /\ sent' = sent + 1
  /\ LoginPage' = [LoginPage EXCEPT !.isSubmitting = TRUE, !.error = ""]
  /\ net' = net \cup {requestInterceptor(Request("login/", Undefined, Undefined),
                                         localStorage)}
  /\ last' = Dispatched("login/")
  /\ before' = localStorage
  /\ UNCHANGED <<localStorage, path, search, ForgotPassword, timers,
                 session, lastLogin>>

\* handleLogin from the await on: try body, catch and finally.
handleLoginSettled(r, resp) ==
  /\ r \in net /\ r.op = "login/"
  /\ resp \in LoginResponses
  /\ LET out == responseInterceptor(resp, localStorage)
         lp  == IF r.live THEN [LoginPage EXCEPT !.isSubmitting = FALSE] ELSE LoginPage
     IN  IF ~out.rejected
           THEN LET s1 == setItem(out.store, "access_token", resp.data.access)
                    s2 == IF Truthy(resp.data.refresh)
                            THEN setItem(s1, "refresh_token", resp.data.refresh)
                            ELSE s1
                IN  /\ localStorage' = s2
                    /\ navigate(DashboardPath, NoQuery, s2, lp, ForgotPassword,
                                net \ {r})
                    /\ session' = "active"
                    /\ lastLogin' = "ok"
           ELSE /\ localStorage' = out.store
                /\ LoginPage' = IF r.live
                                  THEN [lp EXCEPT !.error = ErrorMessage(resp, LoginFallback)]
                                  ELSE LoginPage
                /\ net' = net \ {r}
                /\ session' = IF resp.status = StatusUnauthorized THEN "evicted" ELSE session
                /\ lastLogin' = "failed"
                /\ UNCHANGED <<path, search, ForgotPassword>>
  /\ last' = Settled(r, resp, responseInterceptor(resp, localStorage).rejected)
  /\ before' = localStorage
  /\ UNCHANGED <<timers, sent>>

\* ---------------------------------------------------------------- ForgotPassword
setUid(v) ==
  /\ path \in ResetPaths
  /\ ForgotPassword' = [ForgotPassword EXCEPT !.uid = v]
  /\ last' = Other
  /\ before' = localStorage
  /\ UNCHANGED <<localStorage, path, search, LoginPage, net, timers, sent,
                 session, lastLogin>>

setToken(v) ==
  /\ path \in ResetPaths
  /\ ForgotPassword' = [ForgotPassword EXCEPT !.token = v]
  /\ last' = Other
  /\ before' = localStorage
  /\ UNCHANGED <<localStorage, path, search, LoginPage, net, timers, sent,
                 session, lastLogin>>

\* Variant: a new request keeps the status of the one before.
requestStart_KeepsStatus(fp) ==
  [fp EXCEPT !.isRequesting = TRUE, !.requestError = ""]

\* submitRequest, lines 41-43: the state updates before the call.
requestStart(fp) ==
  [fp EXCEPT !.isRequesting = TRUE, !.requestError = "", !.requestStatus = ""]

\* submitRequest, try body after the await and finally.
requestThen(fp, data) ==
  [fp EXCEPT
     !.requestStatus = Or(data.message, RequestDefaultStatus),
     !.uid = IF Truthy(data.uid) THEN data.uid ELSE fp.uid,
     !.token = IF Truthy(data.token) THEN data.token ELSE fp.token,
     !.isRequesting = FALSE]

\* Variant: both phases share one error field.
requestCatch_SharedError(fp, err) ==
  [fp EXCEPT !.requestError = ErrorMessage(err, RequestFallback),
             !.confirmError = ErrorMessage(err, RequestFallback),
             !.isRequesting = FALSE]

\* Variant: a failed request forgets the uid and token entered so far.
requestCatch_ClearsPair(fp, err) ==
  [fp EXCEPT !.requestError = ErrorMessage(err, RequestFallback),
             !.uid = "", !.token = "",
             !.isRequesting = FALSE]

\* Variant: the failure path leaves the pending flag set.
requestCatch_StaysPending(fp, err) ==
  [fp EXCEPT !.requestError = ErrorMessage(err, RequestFallback)]

\* submitRequest, catch and finally.
requestCatch(fp, err) ==
  [fp EXCEPT !.requestError = ErrorMessage(err, RequestFallback),
             !.isRequesting = FALSE]

\* submitRequest up to the await; the form exists only when !showConfirm.
submitRequest ==
  /\ path \in ResetPaths
  /\ "request" \in render(search)
  /\ ~disabled(ForgotPassword.isRequesting)
  /\ sent < MaxReq
  /\ sent' = sent + 1
  /\ ForgotPassword' = requestStart(ForgotPassword)
  /\ net' = net \cup {requestInterceptor(
                        Request("password-reset-request/", Undefined, Undefined),
                        localStorage)}
  /\ last' = Dispatched("password-reset-request/")
  /\ before' = localStorage
  /\ UNCHANGED <<localStorage, path, search, LoginPage, timers, session,
                 lastLogin>>

\* submitRequest from the await on.
submitRequestSettled(r, resp) ==
  /\ r \in net /\ r.op = "password-reset-request/"
  /\ resp \in RequestResponses
  /\ LET out == responseInterceptor(resp, localStorage)
         fp  == ForgotPassword
         ok  == requestThen(fp, resp.data)
         ko  == requestCatch(fp, resp)
     IN  /\ localStorage' = out.store
         /\ ForgotPassword' = IF ~r.live THEN fp
                              ELSE IF ~out.rejected THEN ok ELSE ko
         /\ session' = IF resp.status = StatusUnauthorized THEN "evicted" ELSE session
  /\ net' = net \ {r}
  /\ last' = Settled(r, resp, responseInterceptor(resp, localStorage).rejected)
  /\ before' = localStorage
  /\ UNCHANGED <<path, search, LoginPage, timers, sent, lastLogin>>

\* Variant: the redirect is never scheduled.
setTimeout_Dropped(pending) == pending

\* setTimeout(callback, 1200): one more callback is pending.
setTimeout(pending) == pending + 1

\* Variant: the local check is skipped.
Mismatch_Never(password, confirm) == FALSE

\* password !== confirm
Mismatch(password, confirm) == password # confirm

\* submitConfirm, lines 63-65: the state updates before the check.
confirmStart(fp) ==
  [fp EXCEPT !.isConfirming = TRUE, !.confirmError = "", !.confirmStatus = ""]

\* submitConfirm, lines 67-68: the early return.
confirmReject(fp) ==
  [fp EXCEPT !.confirmError = MismatchMessage, !.isConfirming = FALSE]

\* submitConfirm, try body after the await and finally.
confirmThen(fp) ==
  [fp EXCEPT !.confirmStatus = ConfirmSuccessStatus, !.isConfirming = FALSE]

\* submitConfirm, catch and finally.
confirmCatch(fp, err) ==
  [fp EXCEPT !.confirmError = ErrorMessage(err, ConfirmFallback),
             !.isConfirming = FALSE]

\* submitConfirm up to the await, or up to the early return, with the values
\* the user has put in the two password inputs.  The four inputs are required,
\* and the submit button is disabled while pending.
submitConfirm(password, confirm) ==
  /\ path \in ResetPaths
  /\ "confirm" \in render(search)
  /\ ~disabled(ForgotPassword.isConfirming)
  /\ \A v \in {ForgotPassword.uid, ForgotPassword.token, password, confirm} : v # ""
  /\ IF Mismatch(password, confirm)
       THEN /\ ForgotPassword' = confirmReject(confirmStart(ForgotPassword))
            /\ UNCHANGED <<net, sent>>
       ELSE /\ sent < MaxReq
            /\ sent' = sent + 1
            /\ ForgotPassword' = confirmStart(ForgotPassword)
            /\ net' = net \cup {requestInterceptor(
                                  Request("password-reset-confirm/",
                                          Trim(ForgotPassword.uid),
                                          Trim(ForgotPassword.token)),
                                  localStorage)}
  /\ last' = IF password # confirm
               THEN Event("mismatch", "password-reset-confirm/", NoResponse,
                          Undefined, TRUE, FALSE)
               ELSE Dispatched("password-reset-confirm/")
  /\ before' = localStorage
  /\ UNCHANGED <<localStorage, path, search, LoginPage, timers, session,
                 lastLogin>>

\* submitConfirm from the await on.
submitConfirmSettled(r, resp) ==
  /\ r \in net /\ r.op = "password-reset-confirm/"
  /\ resp \in ConfirmResponses
  /\ LET out == responseInterceptor(resp, localStorage)
         fp  == ForgotPassword
         ok  == confirmThen(fp)
         ko  == confirmCatch(fp, resp)
     IN  /\ localStorage' = out.store
         /\ ForgotPassword' = IF ~r.live THEN fp
                              ELSE IF ~out.rejected THEN ok ELSE ko
         /\ timers' = IF ~out.rejected THEN setTimeout(timers) ELSE timers
         /\ session' = IF resp.status = StatusUnauthorized THEN "evicted" ELSE session
  /\ net' = net \ {r}
  /\ last' = Settled(r, resp, responseInterceptor(resp, localStorage).rejected)
  /\ before' = localStorage
  /\ UNCHANGED <<path, search, LoginPage, sent, lastLogin>>

\* ---------------------------------------------------------------- specification
Urls == {<<p, NoQuery>> : p \in KnownPaths \cup {UnknownPath}} \cup
        {<<ResetPath, q>> : q \in Queries}

Next ==
  \/ \E u \in Urls : Load(u[1], u[2])
  \/ \E p \in InAppPaths : Navigate(p)
  \/ TimerFire
  \/ handleLogin
  \/ \E r \in net, resp \in LoginResponses : handleLoginSettled(r, resp)
  \/ \E v \in TypedUids : setUid(v)
  \/ \E v \in TypedTokens : setToken(v)
  \/ submitRequest
  \/ \E r \in net, resp \in RequestResponses : submitRequestSettled(r, resp)
  \/ \E password \in Passwords, confirm \in Passwords : submitConfirm(password, confirm)
  \/ \E r \in net, resp \in ConfirmResponses : submitConfirmSettled(r, resp)

Spec == Init /\ [][Next]_vars

\* The timer callback runs once its delay has passed.
FairSpec == Spec /\ WF_vars(TimerFire)

TypeOK ==
  /\ localStorage \in [{"access_token", "refresh_token"} ->
                         AccessTokens \cup RefreshTokens \cup {Null}]
  /\ path \in KnownPaths
  /\ search \in Queries
  /\ LoginPage \in [error : STRING, isSubmitting : BOOLEAN]
  /\ ForgotPassword.isRequesting \in BOOLEAN /\ ForgotPassword.isConfirming \in BOOLEAN
  /\ \A r \in net : r.id < sent /\ r.live \in BOOLEAN
  /\ session \in {"never", "active", "evicted"}
  /\ lastLogin \in {"none", "ok", "failed"}
  /\ timers \in 0..MaxReq
  /\ sent \in 0..MaxReq

\* ---------------------------------------------------------------- properties
HasAccess == localStorage.access_token # Null

SettledEvent(op) == last.ev = "settled" /\ last.op = op

\* The message a form shows for a failed call of op.
Displayed(op) ==
  IF op = "login/" THEN LoginPage.error
  ELSE IF op = "password-reset-request/" THEN ForgotPassword.requestError
  ELSE ForgotPassword.confirmError

Fallback(op) ==
  IF op = "login/" THEN LoginFallback
  ELSE IF op = "password-reset-request/" THEN RequestFallback
  ELSE ConfirmFallback

\* C1 as stated: an access token is stored if and only if the most recently
\* completed login attempt succeeded and no 401 response has been handled since
\* that success.
C1_Original ==
  HasAccess <=> (lastLogin = "ok" /\ session = "active")

\* C1 as amended: an access token is stored if and only if some login attempt
\* has succeeded and no 401 response has been handled since the most recent
\* successful login; a later login that fails without a 401 leaves it in place.
C1_SessionInvariant ==
  HasAccess <=> session = "active"

\* A token survives a later failed login.
C1_Witness ==
  HasAccess /\ session = "active" /\ lastLogin = "failed"

\* C2: a login whose success payload has an access token and no refresh token
\* leaves the store holding exactly that access token and no refresh token,
\* whatever the store held before.
C2_Original ==
  [][\A r \in net, resp \in LoginResponses :
       (resp.status = StatusOk /\ resp.data.refresh = Undefined
          /\ handleLoginSettled(r, resp))
       => localStorage' = [access_token |-> resp.data.access,
                           refresh_token |-> Null]]_vars

\* C3 as stated: a failed login, whatever its status, leaves localStorage as it
\* was before the failure was handled.
C3_Original ==
  (SettledEvent("login/") /\ last.status # StatusOk) => localStorage = before

\* C3 as amended: a failed login whose status is not 401 (a network fault
\* included) leaves localStorage as it was; a login that fails with 401
\* leaves both entries absent.
C3_FailedLoginStore ==
  (SettledEvent("login/") /\ last.status # StatusOk)
    => localStorage = IF last.status = StatusUnauthorized THEN EmptyStore ELSE before

\* A login failed without a 401 while a session was stored, and the session is
\* still there.
C3_Witness ==
  /\ SettledEvent("login/") /\ last.status = StatusBadRequest
  /\ before.access_token # Null /\ before.refresh_token # Null
  /\ localStorage = before

\* C4: a request just dispatched by login, reset-request or reset-confirm
\* carries "Bearer <token>" for the access token stored at dispatch, and no
\* Authorization header when none is stored.
C4_BearerAttached ==
  last.ev = "submit" =>
    \E r \in net :
      /\ r.id = sent - 1
      /\ r.op = last.op
      /\ r.Authorization = IF localStorage.access_token # Null
                             THEN "Bearer " \o localStorage.access_token
                             ELSE Undefined

\* A reset-confirm dispatched while a session is stored.
C4_Witness ==
  /\ last.ev = "submit" /\ last.op = "password-reset-confirm/"
  /\ localStorage.access_token = "A2"
  /\ \E r \in net : r.id = sent - 1 /\ r.Authorization = "Bearer A2"

\* C5: right after a response with status 401 is handled, access_token and
\* refresh_token are both absent, whichever operation issued the request and
\* whatever it carried, and the failure reached the caller's catch block (a
\* mounted form shows an error).
C5_EvictedOn401 ==
  (last.ev = "settled" /\ last.status = StatusUnauthorized) =>
    /\ localStorage = EmptyStore
    /\ last.caught
    /\ last.live => Displayed(last.op) # ""

\* A 401 on a reset-request that carried no valid session evicts a stored pair.
C5_Witness ==
  /\ SettledEvent("password-reset-request/") /\ last.status = StatusUnauthorized
  /\ before.access_token # Null /\ before.refresh_token # Null
  /\ localStorage = EmptyStore
  /\ last.live /\ ForgotPassword.requestError # ""

GuardEvaluated ==
  last.ev \in {"load", "navigate"} /\ last.op \in ProtectedPaths

\* C6: a route guard evaluation for /dashboard or /settings/2fa that follows a
\* handled 401, with no successful login in between, ends on the sign-in entry
\* point; an evaluation made while an access token is stored renders the view,
\* the one made by a successful login's own navigate("/dashboard") included.
C6_GuardAfterEviction ==
  /\ GuardEvaluated =>
       /\ session = "evicted" => path = SignInPath
       /\ HasAccess => path = last.op
  /\ (SettledEvent("login/") /\ last.status = StatusOk) => path = DashboardPath

\* A session was stored, a 401 evicted it, and the guard then redirected.
C6_Witness ==
  /\ GuardEvaluated /\ last.op = DashboardPath
  /\ session = "evicted" /\ lastLogin = "ok"
  /\ path = SignInPath

NonEmpty(v) == v # Null /\ v # ""

\* C7 as stated: with uid and token both non-empty in the URL the reset view
\* shows only the confirmation form; with either absent or empty it shows only
\* the request form.
C7_Original ==
  path \in ResetPaths =>
    render(search) = IF NonEmpty(search.uid) /\ NonEmpty(search.token)
                       THEN {"confirm"} ELSE {"request"}

\* C7 as amended: with uid and token both non-empty in the URL the reset view
\* shows only the confirmation form; with either absent or empty it shows the
\* request form and, below it, the confirmation form.
C7_PhaseSelection ==
  path \in ResetPaths =>
    render(search) = IF NonEmpty(search.uid) /\ NonEmpty(search.token)
                       THEN {"confirm"} ELSE {"request", "confirm"}

\* A reset URL with a uid and no token.
C7_Witness ==
  /\ path = ResetPath /\ search = [uid |-> "u1", token |-> Null]
  /\ render(search) = {"request", "confirm"}

\* C8: a confirmation submitted with differing passwords dispatches nothing (no
\* confirm request of the mounted form is in flight afterwards), shows
\* "Passwords do not match.", ends with the pending flag false and leaves
\* localStorage unchanged.
C8_MismatchRejected ==
  last.ev = "mismatch" =>
    /\ ~\E r \in net : r.op = "password-reset-confirm/" /\ r.live
    /\ ForgotPassword.confirmError = MismatchMessage
    /\ ForgotPassword.confirmStatus = ""
    /\ ~ForgotPassword.isConfirming
    /\ localStorage = before

\* A mismatch rejected while a session is stored and another request is in flight.
C8_Witness ==
  /\ last.ev = "mismatch"
  /\ ForgotPassword.confirmError = MismatchMessage
  /\ HasAccess
  /\ net # {}

ConfirmSucceeded == SettledEvent("password-reset-confirm/") /\ last.status = StatusOk

\* C9: a successful password-reset-confirm response sets the success status (on
\* the mounted form) and schedules the redirect; only such a response schedules
\* one (no failed or locally rejected confirmation does); and a scheduled
\* redirect leads to a navigation to the sign-in entry point, unless the
\* document is unloaded first.
C9_RedirectAfterSuccess ==
  /\ [](ConfirmSucceeded =>
          /\ timers >= 1
          /\ last.live => ForgotPassword.confirmStatus = ConfirmSuccessStatus)
  /\ [][timers' > timers =>
          (last'.ev = "settled" /\ last'.op = "password-reset-confirm/"
             /\ last'.status = StatusOk)]_vars
  /\ (timers > 0) ~> ((last.ev = "timer" /\ path = SignInPath) \/ last.ev = "load")

\* The redirect has fired and the sign-in form is shown.
C9_Witness ==
  last.ev = "timer" /\ path = SignInPath /\ timers = 0 /\ sent > 0

\* C10: for login, reset-request and reset-confirm, a failed call makes the
\* mounted form show the backend's error field when it is a non-empty string and
\* the operation's fixed fallback otherwise (no response at all included); the
\* failure ends in the handler's catch block and the pending flag is cleared.
C10_ErrorMessage ==
  (last.ev = "settled" /\ last.status # StatusOk) =>
    /\ last.caught
    /\ last.live =>
         Displayed(last.op) =
           IF last.status # NoResponse /\ NonEmpty(last.error) /\ last.error # Undefined
             THEN last.error
             ELSE Fallback(last.op)

\* The backend's message is shown verbatim by the sign-in form.
C10_Witness ==
  /\ SettledEvent("login/") /\ last.status = StatusBadRequest
  /\ last.error = "Invalid credentials" /\ last.live
  /\ LoginPage.error = "Invalid credentials"
  /\ ~HasAccess

Ops == {"login/", "password-reset-request/", "password-reset-confirm/"}

\* The requests of op that a mounted form instance is waiting for.
InFlight(op) == {r \in net : r.op = op /\ r.live}

\* C11: a mounted form instance (login, reset-request, reset-confirm) never has
\* more than one request of its own in flight: no submission starts between a
\* submission and the settling of its promise.
C11_OneInFlight ==
  \A op \in Ops : Cardinality(InFlight(op)) <= 1

\* Two login requests are in flight, one of the mounted form and one of an
\* instance that has been unmounted since.
C11_Witness ==
  \E r1, r2 \in net :
    /\ r1.op = "login/" /\ r2.op = "login/"
    /\ r1.live /\ ~r2.live
    /\ LoginPage.isSubmitting

RequestFields ==
  <<ForgotPassword.isRequesting, ForgotPassword.requestError,
    ForgotPassword.requestStatus>>

ConfirmFields ==
  <<ForgotPassword.isConfirming, ForgotPassword.confirmError,
    ForgotPassword.confirmStatus>>

\* C12: a step of the request phase (submission or settling) leaves the confirm
\* phase's pending, error and status fields unchanged, and a step of the confirm
\* phase (submission, local rejection or settling) leaves the request phase's
\* pending, error and status fields unchanged, however the two interleave.
C12_PhasesIndependent ==
  [][/\ (last'.ev \in {"submit", "settled"}
           /\ last'.op = "password-reset-request/")
        => ConfirmFields' = ConfirmFields
     /\ (last'.ev \in {"submit", "settled", "mismatch"}
           /\ last'.op = "password-reset-confirm/")
        => RequestFields' = RequestFields]_vars

\* The request phase has failed while the confirm phase is still pending.
C12_Witness ==
  /\ SettledEvent("password-reset-request/") /\ last.live
  /\ ForgotPassword.requestError # ""
  /\ ForgotPassword.isConfirming /\ ForgotPassword.confirmError = ""

\* What handling one 401 response does to a store.
Evict(store) ==
  responseInterceptor([status |-> StatusUnauthorized, data |-> NoData], store).store

\* C13: clearing is idempotent: from every reachable store, the eviction done
\* for a 401 leaves both entries absent, doing it a second time changes
\* nothing, and a 401 handled on an already cleared store leaves it cleared.
C13_ClearIdempotent ==
  /\ Evict(localStorage) = EmptyStore
  /\ Evict(Evict(localStorage)) = Evict(localStorage)
  /\ (last.ev = "settled" /\ last.status = StatusUnauthorized
        /\ before = Evict(before))
     => localStorage = before

\* A 401 has been handled on a store that was already cleared.
C13_Witness ==
  /\ last.ev = "settled" /\ last.status = StatusUnauthorized
  /\ session = "evicted"
  /\ before = EmptyStore /\ localStorage = EmptyStore
  /\ sent = MaxReq /\ net = {}

\* C14: on the reset view the request form is shown exactly when the URL lacks
\* a non-empty uid or a non-empty token, whatever the form's uid and token
\* fields hold after typing or after a response that supplied a pair; the
\* confirmation form is always shown.
C14_FormSelection ==
  path \in ResetPaths =>
    /\ ("request" \in render(search))
         <=> ~(NonEmpty(search.uid) /\ NonEmpty(search.token))
    /\ "confirm" \in render(search)

\* A response has filled in both fields and the request form is still shown.
C14_Witness ==
  /\ path \in ResetPaths
  /\ SettledEvent("password-reset-request/") /\ last.status = StatusOk
  /\ ForgotPassword.uid = "ub" /\ ForgotPassword.token = "tb"
  /\ render(search) = {"request", "confirm"}

\* The confirmation requests in flight, with the uid and token they carry.
ConfirmsInFlight(n) == {c \in n : c.op = "password-reset-confirm/"}

\* C15 as stated: handling a request-phase response changes neither the uid and
\* token the confirm phase holds nor those of a confirmation in flight.
C15_Original ==
  [][\A r \in net, resp \in RequestResponses :
       submitRequestSettled(r, resp)
       => /\ ForgotPassword'.uid = ForgotPassword.uid
          /\ ForgotPassword'.token = ForgotPassword.token
          /\ ConfirmsInFlight(net') = ConfirmsInFlight(net)]_vars

\* C15: handling a request-phase response never changes the uid and token of a
\* confirmation already in flight; of the uid and token the form holds, it
\* overwrites exactly those the response carries when the response is a success
\* delivered to the mounted form, and leaves both as they were otherwise.
C15_RequestResponseEffect ==
  [][(last'.ev = "settled" /\ last'.op = "password-reset-request/") =>
     \A r \in net, resp \in RequestResponses :
       (r.live = last'.live /\ resp.status = last'.status
          /\ submitRequestSettled(r, resp))
       => LET ok == r.live /\ resp.status = StatusOk
          IN  /\ ConfirmsInFlight(net') = ConfirmsInFlight(net)
              /\ ForgotPassword'.uid =
                   IF ok /\ Truthy(resp.data.uid) THEN resp.data.uid
                   ELSE ForgotPassword.uid
              /\ ForgotPassword'.token =
                   IF ok /\ Truthy(resp.data.token) THEN resp.data.token
                   ELSE ForgotPassword.token]_vars

\* A request-phase response has replaced the uid the form holds while a
\* confirmation carrying the typed uid is still in flight.
C15_Witness ==
  /\ SettledEvent("password-reset-request/") /\ last.live
  /\ last.status = StatusOk
  /\ ForgotPassword.uid = "ub"
  /\ \E c \in ConfirmsInFlight(net) : c.live /\ c.uid = "u2"

\* Where a uid or token value comes from.
Source(v) ==
  IF v \in {"u1", "t1"} THEN "url"
  ELSE IF v \in TypedUids \cup TypedTokens THEN "typed"
  ELSE IF v \in {"ub", "tb"} THEN "backend"
  ELSE "none"

Mixed(fp) ==
  /\ Source(fp.uid) # "none" /\ Source(fp.token) # "none"
  /\ Source(fp.uid) # Source(fp.token)

\* C16 as stated: a successful response with both uid and token leaves the form
\* holding exactly that pair; any other response to a reset request (only one
\* of the two, none, or a failure) does not leave the form holding a pair of
\* values from different sources that it did not hold before.
C16_Original ==
  [][\A r \in net, resp \in RequestResponses :
       (r.live /\ submitRequestSettled(r, resp))
       => IF resp.status = StatusOk /\ Truthy(resp.data.uid)
               /\ Truthy(resp.data.token)
            THEN /\ ForgotPassword'.uid = resp.data.uid
                 /\ ForgotPassword'.token = resp.data.token
            ELSE Mixed(ForgotPassword') => Mixed(ForgotPassword)]_vars

\* C17: the store never holds a refresh token without an access token.
C17_RefreshNeedsAccess ==
  localStorage.refresh_token # Null => localStorage.access_token # Null

\* A login without a refresh token has replaced the access token next to the
\* refresh token of an earlier login.
C17_Witness ==
  /\ SettledEvent("login/") /\ last.status = StatusOk
  /\ before.refresh_token = "R1" /\ localStorage.refresh_token = "R1"
  /\ HasAccess /\ before.access_token # localStorage.access_token

\* C18: handling a login response moves to /dashboard exactly when the response
\* is a success, and then the store holds the access token of that response;
\* handling a failed login leaves the location as it was.
C18_DashboardOnSuccess ==
  [][(last'.ev = "settled" /\ last'.op = "login/") =>
     \A r \in net, resp \in LoginResponses :
       handleLoginSettled(r, resp)
       => IF resp.status = StatusOk
            THEN /\ path' = DashboardPath
                 /\ localStorage'.access_token = resp.data.access
            ELSE path' = path /\ search' = search]_vars

\* A successful login has written the first access token and reached /dashboard.
C18_Witness ==
  /\ SettledEvent("login/") /\ last.status = StatusOk /\ last.live
  /\ before.access_token = Null /\ HasAccess
  /\ path = DashboardPath

\* The steps that handle an answer or a failure of a request in flight.
Settle ==
  \/ \E r \in net, resp \in LoginResponses : handleLoginSettled(r, resp)
  \/ \E r \in net, resp \in RequestResponses : submitRequestSettled(r, resp)
  \/ \E r \in net, resp \in ConfirmResponses : submitConfirmSettled(r, resp)

\* Settle is enabled exactly when a request is in flight, and a step is a
\* Settle step exactly when it records a settled event.
SettleEnabled == (ENABLED <<Settle>>_vars) <=> net # {}
SettleSteps == [][(last'.ev = "settled") <=> Settle]_vars

\* Every request in flight is eventually answered or fails: weak fairness of
\* Settle, WF_vars(Settle), written out with SettleEnabled and SettleSteps.
LiveSpec ==
  Spec /\ ([]<>(net = {}) \/ []<><<last'.ev = "settled">>_vars)

\* The pending flag of the form that calls op.
Pending(op) ==
  IF op = "login/" THEN LoginPage.isSubmitting
  ELSE IF op = "password-reset-request/" THEN ForgotPassword.isRequesting
  ELSE ForgotPassword.isConfirming

\* C19: each form's pending flag is true exactly while a request of that form
\* is in flight, so a submission rejected by local validation leaves it false;
\* and when every request in flight is eventually answered or fails, a pending
\* flag that is true eventually becomes false (no flag stays true for ever).
C19_PendingEnds ==
  /\ [](\A op \in Ops : Pending(op) <=> InFlight(op) # {})
  /\ \A op \in Ops : []<>~Pending(op)

\* A confirmation was rejected by local validation and its flag is false while
\* the request form's call is in flight with its flag true.
C19_Witness ==
  /\ last.ev = "mismatch"
  /\ ~ForgotPassword.isConfirming
  /\ ForgotPassword.isRequesting
  /\ InFlight("password-reset-request/") # {}

\* C20: within each reset phase at most one of the status message and the error
\* message is non-empty.
C20_StatusXorError ==
  /\ ~(ForgotPassword.requestStatus # "" /\ ForgotPassword.requestError # "")
  /\ ~(ForgotPassword.confirmStatus # "" /\ ForgotPassword.confirmError # "")

\* A second request has failed after the first one succeeded: the form shows
\* the error and no longer the status.
C20_Witness ==
  /\ SettledEvent("password-reset-request/") /\ last.live /\ last.caught
  /\ ForgotPassword.uid = "ub"
  /\ ForgotPassword.requestError # "" /\ ForgotPassword.requestStatus = ""

====
